---- MODULE Spec2Model ----
(***************************************************************************)
(* Model of chan_scraper.py: the Tk application ChanScraperApp (the         *)
(* interactive context: user commands and after(0, ...) callbacks) and the  *)
(* asyncio event loop thread that runs the coroutines submitted with        *)
(* _run_async (the background context).                                     *)
(*                                                                          *)
(* A coroutine is a record of jobs; its pc is the await it is parked at.    *)
(* The loop thread runs one coroutine segment at a time (pc = "loop" marks  *)
(* a load coroutine in the middle of its listing loop); steps of the        *)
(* interactive thread interleave with it freely, as the two are OS threads. *)
(***************************************************************************)
EXTENDS Integers, Sequences, FiniteSets, TLC

VARIABLES
    board,          \* self.board
    thread_id,      \* self.thread_id
    media_items,    \* self.media_items: sequence of MediaItem
    selected_items, \* self.selected_items: set of tim
    grid,           \* self.scrollable_frame.winfo_children(): frames [item, thumb, sel]
    status_var,     \* self.status_var
    progress_var,   \* self.progress_var, as a fraction [num, den] of 100 percent
    download_btn,   \* state of self.download_btn
    messagebox,     \* the dialog shown last (messagebox.showerror/showinfo)
    afterq,         \* Tk's queue of after(0, ...) callbacks, oldest first
    jobs,           \* coroutines submitted with _run_async, in submission order
    net,            \* HTTP requests in flight on the worker's session
    session,        \* AsyncWorker.session
    fs,             \* files at the download destination
    dirs,           \* directories created by start_download
    delivered,      \* chunk notifications executed by update_thumbnails, in order
    window,         \* the Tk root window and the process: "open", "destroyed", "restarted", "exited"
    dialogs         \* the Toplevel windows that are open: update dialogs and previews

vars == <<board, thread_id, media_items, selected_items, grid, status_var,
          progress_var, download_btn, messagebox, afterq, jobs, net, session,
          fs, dirs, delivered, window, dialogs>>

\* What only the close and update commands change.
lifecycle == <<window, dialogs>>

shared == <<board, thread_id, media_items, selected_items, status_var, progress_var>>

-----------------------------------------------------------------------------
(* Bounds of the model *)

MaxLoads == 2       \* load commands that pass the URL check
MaxDownloads == 2   \* download commands
BigLen == 11        \* attachments of the long thread
MaxClick == 2       \* the user clicks only the first MaxClick frames of the grid
MaxChecks == 2      \* update checks
MaxPosts == 3       \* posts of a listing the API may serve with any content

-----------------------------------------------------------------------------
(* Values *)

None == "None"

chunk_size == 10

Min(a, b) == IF a < b THEN a ELSE b


\* A post of the thread JSON; the keys 'tim' and 'ext' are optional.
Post(t, e) == [hasTim |-> TRUE, tim |-> t, hasExt |-> TRUE, ext |-> e]
TextPost == [hasTim |-> FALSE, tim |-> 0, hasExt |-> FALSE, ext |-> ""]

\* The listing the API serves for /{b}/thread/{t}.json.
ThreadPosts(b, t) ==
    IF b = "g" /\ t = "1"
    THEN <<Post(111, ".jpg"), Post(111, ".jpg"), TextPost, Post(222, ".webm")>>
    ELSE IF b = "g" /\ t = "2" THEN <<>>
    ELSE IF b = "b" /\ t = "3" THEN [k \in 1..BigLen |-> Post(1000 + k, ".jpg")]
    ELSE <<>>

KnownThread(b, t) == <<b, t>> \in {<<"g", "1">>, <<"g", "2">>, <<"b", "3">>}

\* What the user can have typed into url_entry: the path of the URL split at
\* "/", or nothing (<<>>: the empty entry).
NoText == <<>>
ScenarioUrl == <<"g", "thread", "1">>
EmptyThreadUrl == <<"g", "thread", "2">>
SmallUrls == {ScenarioUrl, EmptyThreadUrl}
BigUrl == <<"b", "thread", "3">>
BadUrls == {<<"g", "catalog">>}
Urls == SmallUrls \cup BadUrls \cup {NoText}

MediaItem(t, e, b) == [tim |-> t, ext |-> e, board |-> b]
thumb_url(item) == <<"thumb", item.board, item.tim>>
full_url(item) == <<"full", item.board, item.tim, item.ext>>
local_filename(item) == <<item.tim, item.ext>>

\* Bytes read from a response: the body served for a URL, the empty body
\* b"", what is left of a body by a failed write; NoBytes is Python's None.
Bytes(url) == [none |-> FALSE, of |-> url]
EmptyBytes == [none |-> FALSE, of |-> <<>>]
PartialBytes == [none |-> FALSE, of |-> <<"partial">>]
NoBytes == [none |-> TRUE, of |-> <<>>]

\* Files whose download may fail (a failed fetch, an empty body, a failed
\* open or write); the others are served and written.
FlakyFiles == {111}

\* Thumbnails the image host may fail to serve (404 or a dropped connection).
FlakyThumbs == {222, 1002}

-----------------------------------------------------------------------------
(* ChanScraperApp.parse_url *)
parse_urlMut(parts) ==
    IF Len(parts) >= 2 THEN <<parts[1], parts[2]>> ELSE <<None, None>>
parse_url(parts) ==
    IF Len(parts) >= 3 /\ parts[2] = "thread"
    THEN <<parts[1], parts[3]>>
    ELSE <<None, None>>

(* AsyncWorker.fetch_json: the value it returns for a response, or "raise". *)
\* resp.kind: "ok" (200, JSON object), "emptyobj" (200, the body {}),
\* "notfound" (status # 200), "garbage" (200, body is not JSON),
\* "neterror" (session.get raises).
fetch_json(resp) ==
    CASE resp.kind = "ok" -> [raised |-> FALSE, isNone |-> FALSE, hasPosts |-> TRUE, posts |-> resp.posts]
      [] resp.kind = "emptyobj" -> [raised |-> FALSE, isNone |-> FALSE, hasPosts |-> FALSE, posts |-> <<>>]
      [] resp.kind = "notfound" -> [raised |-> FALSE, isNone |-> TRUE, hasPosts |-> FALSE, posts |-> <<>>]
      [] OTHER -> [raised |-> TRUE, isNone |-> TRUE, hasPosts |-> FALSE, posts |-> <<>>]

\* Python truth value of the fetched data: None and the empty dict are false.
FalsyMut(data) == data.isNone \/ data.posts = <<>>
Falsy(data) == data.isNone \/ ~data.hasPosts

(* AsyncWorker.fetch_image_bytes: the bytes on status 200, None otherwise;  *)
(* an exception of session.get or response.read is caught.                  *)
fetch_image_bytes(url, outcome) ==
    IF outcome = "ok" THEN Bytes(url)
    ELSE IF outcome = "empty" THEN EmptyBytes
    ELSE NoBytes

\* Python truth value of fetched bytes: None and b"" are false.
Truthy(data) == data # NoBytes /\ data # EmptyBytes

\* media_items[i : i + chunk_size] (i counts from 0)
ChunkOfMut(items, i) == SubSeq(items, i + 1, Len(items))
ChunkOf(items, i) == SubSeq(items, i + 1, Min(i + chunk_size, Len(items)))

-----------------------------------------------------------------------------
(* Jobs *)

Jobs == 1..Len(jobs)
IsLoad(j) == jobs[j].type = "load"
IsDownload(j) == jobs[j].type = "download"
LoadJobs == {j \in Jobs : IsLoad(j)}
DownloadJobs == {j \in Jobs : IsDownload(j)}

\* The loop thread is between two awaits of some coroutine.
BgFree == \A j \in Jobs : jobs[j].pc # "loop"

\* Tasks start in submission order: run_coroutine_threadsafe hands each
\* coroutine to the loop with call_soon_threadsafe, which is first in first out.
NextToStartMut(j) == jobs[j].pc = "start"
NextToStart(j) == jobs[j].pc = "start" /\ \A k \in 1..(j - 1) : jobs[k].pc # "start"

NewLoadJob ==
    [type |-> "load", pc |-> "start", url |-> <<>>, resp |-> None,
     posts |-> <<>>, idx |-> 1, seen |-> {}, appended |-> <<>>, signal |-> None,
     n |-> 0, i |-> 0, results |-> <<>>, input |-> <<>>, notes |-> <<>>,
     cleared |-> selected_items]

InitSessionJob == [type |-> "init_session", pc |-> "start"]

\* A coroutine that has ended and whose callbacks have all run leaves no
\* trace in the program; its record is dropped when the user's next load or
\* download command begins (a download keeps a summary of the runs before it).
Retired(was) == [type |-> "retired", was |-> was, pc |-> "done"]
Ended(j) == jobs[j].pc \in {"done", "raised"}
Forgotten(j) ==
    /\ jobs[j].type \in {"load", "download", "check", "perform"}
    /\ Ended(j)
    /\ \A c \in 1..Len(afterq) : afterq[c].job # j
Retire == [j \in Jobs |-> IF Forgotten(j) THEN Retired(jobs[j].type) ELSE jobs[j]]
LoadsSoFar == {j \in Jobs : IsLoad(j) \/ (jobs[j].type = "retired" /\ jobs[j].was = "load")}
DownloadsSoFar == {j \in Jobs : IsDownload(j) \/ (jobs[j].type = "retired" /\ jobs[j].was = "download")}
IsCheck(j) == jobs[j].type = "check"
IsPerform(j) == jobs[j].type = "perform"
CheckJobs == {j \in Jobs : IsCheck(j)}
PerformJobs == {j \in Jobs : IsPerform(j)}
ChecksSoFar == {j \in Jobs : IsCheck(j) \/ (jobs[j].type = "retired" /\ jobs[j].was = "check")}

Init ==
    /\ board = ""
    /\ thread_id = ""
    /\ media_items = <<>>
    /\ selected_items = {}
    /\ grid = <<>>
    /\ status_var = [text |-> "Ready"]
    /\ progress_var = [num |-> 0, den |-> 1]
    /\ download_btn = "disabled"
    /\ messagebox = [text |-> ""]
    /\ afterq = <<>>
    /\ jobs = <<InitSessionJob>>
    /\ net = {}
    /\ session = None
    /\ fs = {}
    /\ dirs = {}
    /\ delivered = <<>>
    /\ window = "open"
    /\ dialogs = {}

-----------------------------------------------------------------------------
(* Interactive context: user commands *)

\* self.after(0, ...) for each of cbs in turn: Tk runs timer callbacks that
\* are due at the same time in the order they were scheduled.
afterMut(q, cbs) == cbs \o q
after(q, cbs) == q \o cbs

\* update_download_btn: the button is enabled iff something is selected.
update_download_btn(sel) == IF Cardinality(sel) > 0 THEN "normal" ELSE "disabled"

\* ChanScraperApp.load_thread with `parts` in the URL entry.
load_thread(parts) ==
    /\ window = "open"
    /\ IF parts = NoText
       THEN UNCHANGED <<board, thread_id, media_items, selected_items, grid,
                        status_var, progress_var, download_btn, jobs, delivered>>
       ELSE /\ board' = parse_url(parts)[1]
            /\ thread_id' = parse_url(parts)[2]
            /\ IF parse_url(parts)[1] = None
               THEN /\ status_var' = [text |-> "Invalid URL format"]
                    /\ UNCHANGED <<media_items, selected_items, grid,
                                   progress_var, download_btn, jobs, delivered>>
               ELSE /\ Cardinality(LoadsSoFar) < MaxLoads
                    /\ Cardinality({j \in LoadJobs : ~Forgotten(j)}) <= 1
                    /\ status_var' = [text |-> "Fetching thread", board |-> board', thread_id |-> thread_id']
                    /\ grid' = <<>>
                    /\ media_items' = <<>>
                    /\ selected_items' = {}
                    /\ download_btn' = update_download_btn({})
                    /\ progress_var' = [num |-> 0, den |-> 1]
                    /\ jobs' = Append(Retire, NewLoadJob)
                    /\ delivered' = SelectSeq(delivered, LAMBDA d : ~Forgotten(d.job))
    /\ UNCHANGED <<messagebox, afterq, net, session, fs, dirs>>
    /\ UNCHANGED lifecycle

-----------------------------------------------------------------------------
(* Background context: AsyncWorker.init_session *)
init_session(j) ==
    /\ jobs[j].type = "init_session"
    /\ NextToStart(j)
    /\ BgFree
    /\ session' = "open"
    /\ jobs' = [jobs EXCEPT ![j].pc = "done"]
    /\ UNCHANGED <<board, thread_id, media_items, selected_items, grid, status_var,
                   progress_var, download_btn, messagebox, afterq, net, fs, dirs, delivered>>
    /\ UNCHANGED lifecycle

(* Background context: ChanScraperApp._async_load_thread *)

\* The coroutine starts: api_url is built from self.board and self.thread_id
\* as they are now, and the GET is sent.
LoadStart(j) ==
    /\ IsLoad(j)
    /\ NextToStart(j)
    /\ BgFree
    /\ jobs' = [jobs EXCEPT ![j].pc = "fetch_json", ![j].url = <<board, thread_id>>]
    /\ net' = net \cup {[job |-> j, kind |-> "json", slot |-> 0, url |-> <<board, thread_id>>]}
    /\ UNCHANGED <<board, thread_id, media_items, selected_items, grid, status_var,
                   progress_var, download_btn, messagebox, afterq, session, fs, dirs, delivered>>
    /\ UNCHANGED lifecycle

\* The responses the API can give to a listing request.
Responses(url) ==
    (IF KnownThread(url[1], url[2])
     THEN {[kind |-> "ok", posts |-> ThreadPosts(url[1], url[2])],
           [kind |-> "emptyobj"], [kind |-> "garbage"]}
     ELSE {})
    \cup {[kind |-> "notfound"], [kind |-> "neterror"]}

AllResponses == UNION {Responses(<<b, t>>) : b \in {"g", "b"}, t \in {"1", "2", "3"}}

\* fetch_json returns (or raises) and the coroutine runs on to its loop.
LoadResponse(j, resp) ==
    /\ IsLoad(j)
    /\ jobs[j].pc = "fetch_json"
    /\ BgFree
    /\ resp \in Responses(jobs[j].url)
    /\ net' = {r \in net : ~(r.job = j /\ r.kind = "json")}
    /\ LET data == fetch_json(resp) IN
       IF data.raised
       THEN /\ jobs' = [jobs EXCEPT ![j].pc = "raised", ![j].resp = resp.kind]
            /\ UNCHANGED afterq
       ELSE IF Falsy(data)
       THEN /\ jobs' = [jobs EXCEPT ![j].pc = "done", ![j].resp = resp.kind,
                                    ![j].signal = "error"]
            /\ afterq' = after(afterq, <<[fn |-> "showerror", job |-> j],
                                            [fn |-> "status_error", job |-> j]>>)
       ELSE /\ jobs' = [jobs EXCEPT ![j].pc = "loop", ![j].resp = resp.kind,
                                    ![j].posts = data.posts]
            /\ UNCHANGED afterq
    /\ UNCHANGED <<board, thread_id, media_items, selected_items, grid, status_var,
                   progress_var, download_btn, messagebox, session, fs, dirs, delivered>>
    /\ UNCHANGED lifecycle

\* 'tim' in post and 'ext' in post
HasAttachmentMut(post) == post.hasTim
HasAttachment(post) == post.hasTim /\ post.hasExt

\* One iteration of `for post in posts`, run on the loop thread.
LoadPost(j) ==
    /\ IsLoad(j)
    /\ jobs[j].pc = "loop"
    /\ jobs[j].idx <= Len(jobs[j].posts)
    /\ LET post == jobs[j].posts[jobs[j].idx] IN
       IF HasAttachment(post) /\ post.tim \notin jobs[j].seen
       THEN /\ media_items' = Append(media_items, MediaItem(post.tim, post.ext, board))
            /\ jobs' = [jobs EXCEPT ![j].idx = @ + 1,
                                    ![j].seen = @ \cup {post.tim},
                                    ![j].appended = Append(@, MediaItem(post.tim, post.ext, board))]
       ELSE /\ jobs' = [jobs EXCEPT ![j].idx = @ + 1]
            /\ UNCHANGED media_items
    /\ UNCHANGED <<board, thread_id, selected_items, grid, status_var, progress_var,
                   download_btn, messagebox, afterq, net, session, fs, dirs, delivered>>
    /\ UNCHANGED lifecycle

\* _fetch_thumbnails from offset i of a run over n positions: chunks that
\* slice to nothing are gathered at once and notified; the first chunk with
\* requests is sent and awaited.
RECURSIVE ThumbRun(_, _, _)
ThumbRun(i, n, items) ==
    IF i >= n THEN [i |-> i, cbs |-> <<>>, chunk |-> <<>>]
    ELSE IF ChunkOf(items, i) # <<>> THEN [i |-> i, cbs |-> <<>>, chunk |-> ChunkOf(items, i)]
    ELSE LET rest == ThumbRun(i + chunk_size, n, items) IN
         [i |-> rest.i, cbs |-> <<[start |-> i, res |-> <<>>]>> \o rest.cbs, chunk |-> rest.chunk]

ThumbRequests(j, chunk, off) ==
    {[job |-> j, kind |-> "thumb", slot |-> s, off |-> off, url |-> thumb_url(chunk[s])] :
        s \in 1..Len(chunk)}

ThumbCallbacks(j, notes) ==
    [k \in 1..Len(notes) |-> [fn |-> "update_thumbnails", job |-> j,
                              start |-> notes[k].start, res |-> notes[k].res]]

\* The loop has ended: the two callbacks are scheduled and _fetch_thumbnails
\* begins, range(0, len(self.media_items), chunk_size) being fixed here.
LoadLoopEnd(j) ==
    /\ IsLoad(j)
    /\ jobs[j].pc = "loop"
    /\ jobs[j].idx > Len(jobs[j].posts)
    /\ LET run == ThumbRun(0, Len(media_items), media_items) IN
       /\ afterq' = after(afterq, <<[fn |-> "status_found", job |-> j],
                                  [fn |-> "render_grid_placeholders", job |-> j]>>
                                \o ThumbCallbacks(j, run.cbs))
       /\ jobs' = [jobs EXCEPT ![j].pc = IF run.chunk = <<>> THEN "done" ELSE "gather",
                               ![j].signal = "found",
                               ![j].n = Len(media_items),
                               ![j].input = media_items,
                               ![j].i = run.i,
                               ![j].results = [s \in 1..Len(run.chunk) |-> NoBytes],
                               ![j].notes = run.cbs]
       /\ net' = net \cup ThumbRequests(j, run.chunk, run.i)
    /\ UNCHANGED <<board, thread_id, media_items, selected_items, grid, status_var,
                   progress_var, download_btn, messagebox, session, fs, dirs, delivered>>
    /\ UNCHANGED lifecycle

ThumbPending(j) == {r \in net : r.job = j /\ r.kind = "thumb"}

\* One thumbnail request of the chunk completes; when it is the last one,
\* gather returns, the chunk is notified and the next chunk is sent.
\* (Requests complete from either end of the chunk's pending slots.)
ThumbResponse(j, r, outcome) ==
    /\ IsLoad(j)
    /\ jobs[j].pc = "gather"
    /\ BgFree
    /\ r \in ThumbPending(j)
    /\ \/ \A q \in ThumbPending(j) : r.slot <= q.slot
       \/ \A q \in ThumbPending(j) : r.slot >= q.slot
    /\ outcome \in (IF r.url[3] \in FlakyThumbs THEN {"ok", "fail"} ELSE {"ok"})
    /\ LET data == fetch_image_bytes(r.url, outcome)
           results == [jobs[j].results EXCEPT ![r.slot] = data]
           left == ThumbPending(j) \ {r}
       IN
       IF left # {}
       THEN /\ jobs' = [jobs EXCEPT ![j].results = results]
            /\ net' = net \ {r}
            /\ UNCHANGED afterq
       ELSE LET note == [start |-> jobs[j].i, res |-> results]
                run == ThumbRun(jobs[j].i + chunk_size, jobs[j].n, media_items)
                notes == <<note>> \o run.cbs
            IN
            /\ afterq' = after(afterq, ThumbCallbacks(j, notes))
            /\ jobs' = [jobs EXCEPT ![j].pc = IF run.chunk = <<>> THEN "done" ELSE "gather",
                                    ![j].i = run.i,
                                    ![j].notes = @ \o notes,
                                    ![j].results = [s \in 1..Len(run.chunk) |-> NoBytes]]
            /\ net' = (net \ {r}) \cup ThumbRequests(j, run.chunk, run.i)
    /\ UNCHANGED <<board, thread_id, media_items, selected_items, grid, status_var,
                   progress_var, download_btn, messagebox, session, fs, dirs, delivered>>
    /\ UNCHANGED lifecycle


-----------------------------------------------------------------------------
(* Background context: ChanScraperApp._download_files *)

exists(dir, name) == \E f \in fs : f.dir = dir /\ f.name = name

NewDownloadJob(items, save_path, prior) ==
    [type |-> "download", pc |-> "start", items |-> items, save_path |-> save_path,
     success_count |-> 0, total_items |-> Len(items), k |-> 1,
     outc |-> <<>>, reqs |-> 0, writes |-> <<>>, progs |-> <<>>, counts |-> <<>>,
     prior |-> prior, filesAfter |-> {}, notice |-> -1]

\* The names of the files of a run's items that are in its directory.
FilesIn(files, job) ==
    {f.name : f \in {g \in files : g.dir = job.save_path
                                   /\ \E x \in 1..Len(job.items) : g.name = local_filename(job.items[x])}}

ItemCallbacks(j, k, total, count) ==
    <<[fn |-> "progress_set", job |-> j, p |-> [num |-> k, den |-> total]],
      [fn |-> "status_downloading", job |-> j, c |-> count, t |-> total]>>

\* The four callbacks _download_files schedules after its loop.
DoneCallbacksMut(j, count, save_path) ==
    <<[fn |-> "status_ready", job |-> j],
      [fn |-> "update_download_btn", job |-> j],
      [fn |-> "progress_reset", job |-> j]>>
DoneCallbacks(j, count, save_path) ==
    <<[fn |-> "showinfo_complete", job |-> j, c |-> count, path |-> save_path],
      [fn |-> "status_ready", job |-> j],
      [fn |-> "update_download_btn", job |-> j],
      [fn |-> "progress_reset", job |-> j]>>

\* The file check of one item: filepath.exists().
AlreadyPresentMut(files, dir, name) == FALSE
AlreadyPresent(files, dir, name) == \E f \in files : f.dir = dir /\ f.name = name

\* The loop of _download_files from item k on, up to its next await: items
\* whose file exists are counted without a request.
RECURSIVE DlAdvance(_, _, _, _, _)
DlAdvance(files, j, job, k, count) ==
    IF k > job.total_items
    THEN [k |-> k, count |-> count, outc |-> <<>>, fetch |-> FALSE,
          cbs |-> DoneCallbacks(j, count, job.save_path)]
    ELSE IF AlreadyPresent(files, job.save_path, local_filename(job.items[k]))
    THEN LET rest == DlAdvance(files, j, job, k + 1, count + 1) IN
         [k |-> rest.k, count |-> rest.count,
          outc |-> <<[existed |-> TRUE, net |-> "none", wr |-> "none"]>> \o rest.outc,
          fetch |-> rest.fetch,
          cbs |-> ItemCallbacks(j, k, job.total_items, count + 1) \o rest.cbs]
    ELSE [k |-> k, count |-> count, outc |-> <<>>, fetch |-> TRUE, cbs |-> <<>>]

FileRequest(j, item) == [job |-> j, kind |-> "file", slot |-> 0, url |-> full_url(item)]

DownloadStart(j) ==
    /\ IsDownload(j)
    /\ NextToStart(j)
    /\ BgFree
    /\ LET adv == DlAdvance(fs, j, jobs[j], 1, 0) IN
       /\ jobs' = [jobs EXCEPT ![j].pc = IF adv.fetch THEN "fetch" ELSE "done",
                               ![j].k = adv.k,
                               ![j].success_count = adv.count,
                               ![j].outc = adv.outc,
                               ![j].reqs = IF adv.fetch THEN 1 ELSE 0,
                               ![j].filesAfter = IF adv.fetch THEN {} ELSE FilesIn(fs, jobs[j])]
       /\ afterq' = after(afterq, adv.cbs)
       /\ net' = IF adv.fetch THEN net \cup {FileRequest(j, jobs[j].items[adv.k])} ELSE net
    /\ UNCHANGED <<board, thread_id, media_items, selected_items, grid, status_var,
                   progress_var, download_btn, messagebox, session, fs, dirs, delivered>>
    /\ UNCHANGED lifecycle

\* open(filepath, "wb") and f.write(data): wr = "ok", "openfail" (open raises,
\* nothing is created) or "writefail" (the file was created or truncated and
\* write raises).
WriteFile(files, dir, name, data, wr) ==
    IF wr = "openfail" THEN files
    ELSE {f \in files : ~(f.dir = dir /\ f.name = name)}
         \cup {[dir |-> dir, name |-> name,
                content |-> IF wr = "ok" THEN data ELSE PartialBytes]}

\* Whether the item that was fetched and written is counted.
CountsMut(data, wr) == Truthy(data)
Counts(data, wr) == Truthy(data) /\ wr = "ok"

\* fetch_image_bytes of the current item returns; the item is written and
\* reported, and the loop runs on to its next await.
DownloadResponse(j, outcome, wr) ==
    /\ IsDownload(j)
    /\ jobs[j].pc = "fetch"
    /\ BgFree
    /\ outcome \in {"ok", "empty", "fail"}
    /\ wr \in {"ok", "openfail", "writefail"}
    /\ (jobs[j].items[jobs[j].k].tim \notin FlakyFiles => outcome = "ok" /\ wr = "ok")
    /\ LET job == jobs[j]
           item == job.items[job.k]
           name == local_filename(item)
           data == fetch_image_bytes(full_url(item), outcome)
           fs1 == IF Truthy(data) THEN WriteFile(fs, job.save_path, name, data, wr) ELSE fs
           count == IF Counts(data, wr) THEN job.success_count + 1 ELSE job.success_count
           fact == [existed |-> FALSE, net |-> outcome,
                    wr |-> IF Truthy(data) THEN wr ELSE "none"]
           wrote == IF Truthy(data)
                    THEN <<[name |-> name, existed |-> exists(job.save_path, name)]>>
                    ELSE <<>>
       IN
       /\ (~Truthy(data) => wr = "ok")
       /\ fs' = fs1
       /\ LET adv == DlAdvance(fs1, j, job, job.k + 1, count) IN
          /\ jobs' = [jobs EXCEPT ![j].pc = IF adv.fetch THEN "fetch" ELSE "done",
                                  ![j].k = adv.k,
                                  ![j].success_count = adv.count,
                                  ![j].outc = @ \o <<fact>> \o adv.outc,
                                  ![j].reqs = IF adv.fetch THEN @ + 1 ELSE @,
                                  ![j].writes = @ \o wrote,
                                  ![j].filesAfter = IF adv.fetch THEN {} ELSE FilesIn(fs1, job)]
          /\ afterq' = after(afterq, ItemCallbacks(j, job.k, job.total_items, count) \o adv.cbs)
          /\ net' = (net \ {FileRequest(j, item)})
                    \cup (IF adv.fetch THEN {FileRequest(j, job.items[adv.k])} ELSE {})
    /\ UNCHANGED <<board, thread_id, media_items, selected_items, grid, status_var,
                   progress_var, download_btn, messagebox, session, dirs, delivered>>
    /\ UNCHANGED lifecycle


-----------------------------------------------------------------------------
(* Interactive context: the remaining user commands *)

\* toggle_selection(frame, item) for a click on frame k of the grid.
toggle_selection(k) ==
    /\ k \in 1..Min(MaxClick, Len(grid))
    /\ LET tim == grid[k].item.tim IN
       selected_items' = IF tim \in selected_items
                         THEN selected_items \ {tim}
                         ELSE selected_items \cup {tim}
    /\ download_btn' = update_download_btn(selected_items')
    /\ UNCHANGED <<board, thread_id, media_items, grid, status_var, progress_var,
                   messagebox, afterq, jobs, net, session, fs, dirs, delivered>>
    /\ UNCHANGED lifecycle

select_all ==
    /\ selected_items' = selected_items \cup {grid[k].item.tim : k \in 1..Len(grid)}
    /\ download_btn' = update_download_btn(selected_items')
    /\ UNCHANGED <<board, thread_id, media_items, grid, status_var, progress_var,
                   messagebox, afterq, jobs, net, session, fs, dirs, delivered>>
    /\ UNCHANGED lifecycle

deselect_all ==
    /\ selected_items' = {}
    /\ download_btn' = update_download_btn(selected_items')
    /\ UNCHANGED <<board, thread_id, media_items, grid, status_var, progress_var,
                   messagebox, afterq, jobs, net, session, fs, dirs, delivered>>
    /\ UNCHANGED lifecycle

\* open_preview(frame, item): a right click on frame k of the grid opens a
\* preview window, whose button keeps the frame and the item it was opened
\* for. The frames of the grid are destroyed by every load command that is
\* accepted, so a frame is identified by the number of loads before it.
\* (The image or video the window fetches for display is left out.)
open_preview(k) ==
    /\ window = "open"
    /\ k \in 1..Min(MaxClick, Len(grid))
    /\ dialogs' = dialogs \cup {[kind |-> "preview",
                                 data |-> [item |-> grid[k].item,
                                           gen |-> Cardinality(LoadsSoFar)]]}
    /\ UNCHANGED <<board, thread_id, media_items, selected_items, grid, status_var, progress_var,
                   download_btn, messagebox, afterq, jobs, net, session, fs, dirs, delivered,
                   window>>

\* The frame a preview window was opened for is still in the grid.
winfo_exists(d) == d.data.gen = Cardinality(LoadsSoFar)

\* toggle_and_update, the button of a preview window: toggle_selection with
\* the frame and item of the window. The selection is changed first; then
\* frame.configure raises TclError if the frame has been destroyed, and
\* update_download_btn is not reached.
toggle_and_update(d) ==
    /\ window = "open"
    /\ d \in dialogs
    /\ d.kind = "preview"
    /\ LET tim == d.data.item.tim IN
       selected_items' = IF tim \in selected_items
                         THEN selected_items \ {tim}
                         ELSE selected_items \cup {tim}
    /\ download_btn' = IF winfo_exists(d) THEN update_download_btn(selected_items')
                       ELSE download_btn
    /\ UNCHANGED <<board, thread_id, media_items, grid, status_var, progress_var,
                   messagebox, afterq, jobs, net, session, fs, dirs, delivered>>
    /\ UNCHANGED lifecycle

\* [i for i in self.media_items if i.tim in self.selected_items]
items_to_download == SelectSeq(media_items, LAMBDA it : it.tim \in selected_items)

\* The directory start_download saves to.
SavePath(use_subdirs) ==
    IF use_subdirs THEN <<"dest", board, thread_id>> ELSE <<"dest">>

\* What the download runs that have ended and been reported left behind.
Summary(j) ==
    [items |-> jobs[j].items, save_path |-> jobs[j].save_path,
     success_count |-> jobs[j].success_count, total_items |-> jobs[j].total_items,
     filesAfter |-> jobs[j].filesAfter]
PriorRuns == {Summary(j) : j \in {d \in DownloadJobs : Forgotten(d)}}

\* save_path.mkdir(parents=True, exist_ok=True) when it succeeds.
mkdirMut(ds, path) == ds
mkdir(ds, path) == ds \cup {path}

\* start_download: a click on the enabled download button. use_subdirs is the
\* checkbox as it stands; mkdir_ok is whether save_path.mkdir succeeds. With
\* self.board = None the path expression raises before the try block.
start_download(use_subdirs, mkdir_ok) ==
    /\ download_btn = "normal"
    /\ Cardinality(DownloadsSoFar) < MaxDownloads
    /\ Cardinality({j \in DownloadJobs : ~Forgotten(j)}) <= 1
    /\ IF use_subdirs /\ board = None
       THEN UNCHANGED <<status_var, progress_var, download_btn, messagebox, jobs, dirs, delivered>>
       ELSE IF ~mkdir_ok
       THEN /\ messagebox' = [text |-> "Could not create folder"]
            /\ UNCHANGED <<status_var, progress_var, download_btn, jobs, dirs, delivered>>
       ELSE /\ dirs' = mkdir(dirs, SavePath(use_subdirs))
            /\ download_btn' = "disabled"
            /\ status_var' = [text |-> "Starting download..."]
            /\ progress_var' = [num |-> 0, den |-> 1]
            /\ jobs' = Append(Retire, NewDownloadJob(items_to_download, SavePath(use_subdirs),
                                                     PriorRuns))
            /\ delivered' = SelectSeq(delivered, LAMBDA d : ~Forgotten(d.job))
            /\ UNCHANGED messagebox
    /\ UNCHANGED <<board, thread_id, media_items, selected_items, grid, afterq,
                   net, session, fs>>
    /\ UNCHANGED lifecycle

-----------------------------------------------------------------------------
(* Interactive context: the after(0, ...) callbacks *)

\* render_grid_placeholders: one frame per item of self.media_items as it is
\* when the callback runs, added after the frames already in the grid.
render_grid_placeholders(frames, items) ==
    frames \o [k \in 1..Len(items) |-> [item |-> items[k], thumb |-> NoBytes]]

\* update_thumbnails(image_data_list, start_index) on the frames of the grid.
update_thumbnails(frames, res, start) ==
    [w \in 1..Len(frames) |->
        IF w - start \in 1..Len(res) /\ res[w - start] # NoBytes
        THEN [frames[w] EXCEPT !.thumb = res[w - start]]
        ELSE frames[w]]

\* _show_update_ui: the update dialog for a descriptor, the "up to date"
\* dialog for none unless the check was silent.
_show_update_ui(open, update_data, silent) ==
    IF ~update_data.none THEN open \cup {[kind |-> "update", data |-> update_data]}
    ELSE IF ~silent THEN open \cup {[kind |-> "uptodate", data |-> update_data]}
    ELSE open

\* Tk runs the oldest scheduled callback.
RunCallback ==
    /\ window = "open"
    /\ afterq # <<>>
    /\ LET cb == Head(afterq) IN
       /\ afterq' = Tail(afterq)
       /\ CASE cb.fn = "showerror" ->
                 /\ messagebox' = [text |-> "Thread not found or API error"]
                 /\ UNCHANGED <<window, dialogs, status_var, progress_var, download_btn, grid, jobs, delivered>>
            [] cb.fn = "status_error" ->
                 /\ status_var' = [text |-> "Error fetching thread"]
                 /\ UNCHANGED <<window, dialogs, messagebox, progress_var, download_btn, grid, jobs, delivered>>
            [] cb.fn = "status_found" ->
                 /\ status_var' = [text |-> "Found", n |-> Len(media_items)]
                 /\ UNCHANGED <<window, dialogs, messagebox, progress_var, download_btn, grid, jobs, delivered>>
            [] cb.fn = "render_grid_placeholders" ->
                 /\ grid' = render_grid_placeholders(grid, media_items)
                 /\ UNCHANGED <<window, dialogs, messagebox, status_var, progress_var, download_btn, jobs, delivered>>
            [] cb.fn = "update_thumbnails" ->
                 /\ grid' = update_thumbnails(grid, cb.res, cb.start)
                 /\ status_var' = [text |-> "Loaded",
                                   n |-> Min(cb.start + Len(cb.res), Len(media_items)),
                                   of |-> Len(media_items)]
                 /\ delivered' = Append(delivered, [job |-> cb.job, start |-> cb.start, res |-> cb.res])
                 /\ UNCHANGED <<window, dialogs, messagebox, progress_var, download_btn, jobs>>
            [] cb.fn = "progress_set" ->
                 /\ progress_var' = cb.p
                 /\ jobs' = [jobs EXCEPT ![cb.job].progs = Append(@, cb.p)]
                 /\ UNCHANGED <<window, dialogs, messagebox, status_var, download_btn, grid, delivered>>
            [] cb.fn = "status_downloading" ->
                 /\ status_var' = [text |-> "Downloading", c |-> cb.c, t |-> cb.t]
                 /\ jobs' = [jobs EXCEPT ![cb.job].counts = Append(@, cb.c)]
                 /\ UNCHANGED <<window, dialogs, messagebox, progress_var, download_btn, grid, delivered>>
            [] cb.fn = "showinfo_complete" ->
                 /\ messagebox' = [text |-> "Complete", c |-> cb.c, path |-> cb.path]
                 /\ jobs' = [jobs EXCEPT ![cb.job].notice = cb.c]
                 /\ UNCHANGED <<window, dialogs, status_var, progress_var, download_btn, grid, delivered>>
            [] cb.fn = "status_ready" ->
                 /\ status_var' = [text |-> "Ready"]
                 /\ UNCHANGED <<window, dialogs, messagebox, progress_var, download_btn, grid, jobs, delivered>>
            [] cb.fn = "update_download_btn" ->
                 /\ download_btn' = update_download_btn(selected_items)
                 /\ UNCHANGED <<window, dialogs, messagebox, status_var, progress_var, grid, jobs, delivered>>
            [] cb.fn = "progress_reset" ->
                 /\ progress_var' = [num |-> 0, den |-> 1]
                 /\ jobs' = [jobs EXCEPT ![cb.job].progs = Append(@, [num |-> 0, den |-> 1])]
                 /\ UNCHANGED <<window, dialogs, messagebox, status_var, download_btn, grid, delivered>>
            [] cb.fn = "show_update_ui" ->
                 /\ dialogs' = _show_update_ui(dialogs, cb.update_data, cb.silent)
                 /\ status_var' = IF cb.update_data.none /\ ~cb.silent
                                  THEN [text |-> "Ready"] ELSE status_var
                 /\ UNCHANGED <<window, messagebox, progress_var, download_btn, grid, jobs, delivered>>
            [] cb.fn = "showerror_update" ->
                 /\ messagebox' = [text |-> cb.text]
                 /\ jobs' = [jobs EXCEPT ![cb.job].surfaced = cb.text]
                 /\ UNCHANGED <<window, dialogs, status_var, progress_var, download_btn, grid, delivered>>
            [] cb.fn = "status_update_failed" ->
                 /\ status_var' = [text |-> "Update failed."]
                 /\ UNCHANGED <<window, dialogs, messagebox, progress_var, download_btn, grid, jobs, delivered>>
            [] cb.fn = "apply_update" ->
                 /\ window' = "restarted"
                 /\ jobs' = [jobs EXCEPT ![cb.job].applied = TRUE]
                 /\ UNCHANGED <<dialogs, messagebox, status_var, progress_var, download_btn, grid, delivered>>
    /\ UNCHANGED <<board, thread_id, media_items, selected_items, net, session, fs, dirs>>

-----------------------------------------------------------------------------
(* The updater: AsyncWorker.check_update, _process_update_check,            *)
(* _perform_update, AsyncWorker.download_file, _apply_update                *)

\* A string is the sequence of its characters.
APP_VERSION == <<"v", "1", ".", "2", ".", "0">>

\* The tag_name values a release descriptor is served with.
Tags ==
    { <<"v", "1", ".", "3", ".", "0">>,
      <<"v", "1", ".", "2", ".", "0">>,
      <<"v", "1", ".", "1", ".", "9">>,
      <<"1", ".", "1", "0", ".", "0">>,
      <<"v", "v", "2">>,
      <<"v", "1", ".", "2">>,
      <<"v", "1", ".", "2", ".", "0", ".", "1">>,
      <<"v", "1", ".", "3", "-", "r", "c">>,
      <<"l", "a", "t", "e", "s", "t">>,
      <<" ">>,
      <<>> }

Digit == ("0" :> 0) @@ ("1" :> 1) @@ ("2" :> 2) @@ ("3" :> 3) @@ ("4" :> 4) @@
         ("5" :> 5) @@ ("6" :> 6) @@ ("7" :> 7) @@ ("8" :> 8) @@ ("9" :> 9)

\* str.strip() for the blank.
RECURSIVE strip(_)
strip(str) ==
    IF str = <<>> THEN str
    ELSE IF Head(str) = " " THEN strip(Tail(str))
    ELSE IF str[Len(str)] = " " THEN strip(SubSeq(str, 1, Len(str) - 1))
    ELSE str

\* str.lstrip('v'): every leading v is dropped.
RECURSIVE lstrip_v(_)
lstrip_v(str) ==
    IF str # <<>> /\ Head(str) = "v" THEN lstrip_v(Tail(str)) ELSE str

\* str.split('.'): the pieces between the dots, at least one piece.
RECURSIVE split(_)
split(str) ==
    IF str = <<>> THEN << <<>> >>
    ELSE IF Head(str) = "." THEN << <<>> >> \o split(Tail(str))
    ELSE LET rest == split(Tail(str)) IN
         << <<Head(str)>> \o rest[1] >> \o Tail(rest)

\* int(piece) for a piece of digits; any other piece raises ValueError.
IsInt(piece) == piece # <<>> /\ \A k \in 1..Len(piece) : piece[k] \in DOMAIN Digit
RECURSIVE int(_)
int(piece) ==
    IF piece = <<>> THEN 0
    ELSE 10 * int(SubSeq(piece, 1, Len(piece) - 1)) + Digit[piece[Len(piece)]]

\* parse_version of check_update.
parse_version(v_str) ==
    LET pieces == split(lstrip_v(v_str)) IN
    IF \A k \in 1..Len(pieces) : IsInt(pieces[k])
    THEN [k \in 1..Len(pieces) |-> int(pieces[k])]
    ELSE <<0, 0, 0>>

\* a > b for Python tuples of integers.
RECURSIVE TupleGreater(_, _)
TupleGreaterMut(a, b) == a # b
TupleGreater(a, b) ==
    IF a = <<>> THEN FALSE
    ELSE IF b = <<>> THEN TRUE
    ELSE IF Head(a) # Head(b) THEN Head(a) > Head(b)
    ELSE TupleGreater(Tail(a), Tail(b))

\* The release descriptor; hasExe: its assets hold one whose name ends .exe.
NoData == [none |-> TRUE, tag_name |-> <<>>, hasExe |-> FALSE]
Release(tag, hasExe) == [none |-> FALSE, tag_name |-> tag, hasExe |-> hasExe]

\* What the releases endpoint can answer: 200 with a descriptor, 200 with a
\* descriptor without tag_name ("notag"), 200 with a body that is not JSON
\* ("garbage"), another status ("non200"), or session.get raises ("neterror").
CheckResponses ==
    {[kind |-> "ok", data |-> Release(t, e)] : t \in Tags, e \in BOOLEAN}
    \cup {[kind |-> k, data |-> NoData] : k \in {"notag", "garbage", "non200", "neterror"}}

\* The body of the try block of check_update.
check_update_try(resp) ==
    IF resp.kind \in {"neterror", "garbage"} THEN [raised |-> TRUE, data |-> NoData]
    ELSE IF resp.kind = "non200" THEN [raised |-> FALSE, data |-> NoData]
    ELSE LET latest_tag == IF resp.kind = "notag" THEN <<>> ELSE strip(resp.data.tag_name) IN
         IF latest_tag # <<>>
            /\ TupleGreater(parse_version(latest_tag), parse_version(APP_VERSION))
         THEN [raised |-> FALSE, data |-> resp.data]
         ELSE [raised |-> FALSE, data |-> NoData]

\* AsyncWorker.check_update: None without a session; an exception of the
\* try block is caught and None returned.
check_updateMut(sess, resp) == check_update_try(resp)
check_update(sess, resp) ==
    IF sess = None THEN [raised |-> FALSE, data |-> NoData]
    ELSE IF check_update_try(resp).raised THEN [raised |-> FALSE, data |-> NoData]
    ELSE check_update_try(resp)

NewCheckJob(silent) ==
    [type |-> "check", pc |-> "start", silent |-> silent, resp |-> None,
     tag |-> <<>>, result |-> NoData]

\* check_updates(silent): the menu command, or the silent check at startup.
\* The user checks again only when the check before and its dialog are done
\* with.
check_updates(silent) ==
    /\ window = "open"
    /\ Cardinality(ChecksSoFar) < MaxChecks
    /\ \A j \in CheckJobs \cup PerformJobs : Forgotten(j)
    /\ dialogs = {}
    /\ status_var' = IF silent THEN status_var ELSE [text |-> "Checking for updates..."]
    /\ jobs' = Append(Retire, NewCheckJob(silent))
    /\ UNCHANGED <<board, thread_id, media_items, selected_items, grid, progress_var,
                   download_btn, messagebox, afterq, net, session, fs, dirs, delivered>>
    /\ UNCHANGED lifecycle

UpdateUiCallback(j, data, silent) ==
    <<[fn |-> "show_update_ui", job |-> j, update_data |-> data, silent |-> silent]>>

\* _process_update_check starts: check_update returns at once without a
\* session, else sends its GET.
CheckStart(j) ==
    /\ IsCheck(j)
    /\ NextToStart(j)
    /\ BgFree
    /\ IF session = None
       THEN /\ jobs' = [jobs EXCEPT ![j].pc = "done", ![j].resp = "nosession",
                                    ![j].result = check_update(session, [kind |-> "non200"]).data]
            /\ afterq' = after(afterq, UpdateUiCallback(j, NoData, jobs[j].silent))
            /\ UNCHANGED net
       ELSE /\ jobs' = [jobs EXCEPT ![j].pc = "get"]
            /\ net' = net \cup {[job |-> j, kind |-> "release", slot |-> 0, url |-> <<"releases", "latest">>]}
            /\ UNCHANGED afterq
    /\ UNCHANGED <<board, thread_id, media_items, selected_items, grid, status_var,
                   progress_var, download_btn, messagebox, session, fs, dirs, delivered>>
    /\ UNCHANGED lifecycle

\* The answer arrives: check_update returns and _process_update_check
\* schedules _show_update_ui.
CheckResponse(j, resp) ==
    /\ IsCheck(j)
    /\ jobs[j].pc = "get"
    /\ BgFree
    /\ resp \in CheckResponses
    /\ net' = {r \in net : r.job # j}
    /\ LET r == check_update(session, resp) IN
       IF r.raised
       THEN /\ jobs' = [jobs EXCEPT ![j].pc = "raised", ![j].resp = resp.kind,
                                    ![j].tag = resp.data.tag_name]
            /\ UNCHANGED afterq
       ELSE /\ jobs' = [jobs EXCEPT ![j].pc = "done", ![j].resp = resp.kind,
                                    ![j].tag = resp.data.tag_name, ![j].result = r.data]
            /\ afterq' = after(afterq, UpdateUiCallback(j, r.data, jobs[j].silent))
    /\ UNCHANGED <<board, thread_id, media_items, selected_items, grid, status_var,
                   progress_var, download_btn, messagebox, session, fs, dirs, delivered>>
    /\ UNCHANGED lifecycle

NewPerformJob(data) ==
    [type |-> "perform", pc |-> "start", data |-> data, is_frozen |-> FALSE,
     download_url |-> None, target_filename |-> "", outcome |-> None,
     success |-> FALSE, reqs |-> 0, signal |-> None, surfaced |-> None,
     applied |-> FALSE]

\* "Update Now" in an update dialog: do_update and _trigger_update.
do_update(d) ==
    /\ window = "open"
    /\ d \in dialogs
    /\ d.kind = "update"
    /\ dialogs' = dialogs \ {d}
    /\ status_var' = [text |-> "Downloading update..."]
    /\ jobs' = Append(jobs, NewPerformJob(d.data))
    /\ UNCHANGED <<board, thread_id, media_items, selected_items, grid, progress_var,
                   download_btn, messagebox, afterq, net, session, fs, dirs, delivered, window>>

\* "Later" in an update dialog, "OK" in the up-to-date dialog, or closing
\* a preview window.
dismiss(d) ==
    /\ window = "open"
    /\ d \in dialogs
    /\ dialogs' = dialogs \ {d}
    /\ UNCHANGED <<board, thread_id, media_items, selected_items, grid, status_var, progress_var,
                   download_btn, messagebox, afterq, jobs, net, session, fs, dirs, delivered, window>>

\* The asset _perform_update chooses: the .exe asset for a packaged binary,
\* the script of the tag for a source invocation.
DownloadUrl(data, is_frozen) ==
    IF is_frozen
    THEN IF data.hasExe THEN <<"asset", data.tag_name>> ELSE None
    ELSE <<"raw", data.tag_name>>

TargetFilename(is_frozen) == IF is_frozen THEN "update.new" ELSE "chan_scraper.py"

UpdateErrorCallbacks(j, text) ==
    <<[fn |-> "showerror_update", job |-> j, text |-> text],
      [fn |-> "status_update_failed", job |-> j]>>

\* _perform_update up to its await of download_file; is_frozen is
\* getattr(sys, 'frozen', False).
PerformStart(j, is_frozen) ==
    /\ IsPerform(j)
    /\ NextToStart(j)
    /\ BgFree
    /\ LET download_url == DownloadUrl(jobs[j].data, is_frozen) IN
       IF download_url = None
       THEN /\ jobs' = [jobs EXCEPT ![j].pc = "done", ![j].is_frozen = is_frozen,
                                    ![j].signal = "error"]
            /\ afterq' = after(afterq, UpdateErrorCallbacks(j, "Could not find a suitable update file."))
            /\ UNCHANGED net
       ELSE /\ jobs' = [jobs EXCEPT ![j].pc = "download", ![j].is_frozen = is_frozen,
                                    ![j].download_url = download_url,
                                    ![j].target_filename = TargetFilename(is_frozen),
                                    ![j].reqs = @ + 1]
            /\ net' = net \cup {[job |-> j, kind |-> "update", slot |-> 0, url |-> download_url]}
            /\ UNCHANGED afterq
    /\ UNCHANGED <<board, thread_id, media_items, selected_items, grid, status_var,
                   progress_var, download_btn, messagebox, session, fs, dirs, delivered>>
    /\ UNCHANGED lifecycle

\* AsyncWorker.download_file: True when the status is 200 and the body was
\* written; an exception (of the request, of open, of reading the body or
\* of write) gives False.
\* outcome: "ok"; "non200"; "neterror" (session.get raises); "openfail"
\* (open(dest_path, 'wb') raises); "readfail" (the file is open and
\* response.content.read raises); "writefail" (f.write raises).
UpdateOutcomes == {"ok", "non200", "neterror", "openfail", "readfail", "writefail"}

download_fileMut(outcome) == TRUE
download_file(outcome) == outcome = "ok"

\* download_file returns to _perform_update.
PerformResponse(j, outcome) ==
    /\ IsPerform(j)
    /\ jobs[j].pc = "download"
    /\ BgFree
    /\ outcome \in UpdateOutcomes
    /\ net' = {r \in net : r.job # j}
    /\ fs' = IF outcome \in {"ok", "readfail", "writefail"}
             THEN WriteFile(fs, <<"cwd">>, jobs[j].target_filename, Bytes(jobs[j].download_url),
                            outcome)
             ELSE fs
    /\ LET success == download_file(outcome) IN
       /\ jobs' = [jobs EXCEPT ![j].pc = "done", ![j].outcome = outcome, ![j].success = success,
                               ![j].signal = IF success THEN "apply" ELSE "error"]
       /\ afterq' = after(afterq,
                          IF success
                          THEN <<[fn |-> "apply_update", job |-> j]>>
                          ELSE UpdateErrorCallbacks(j, "Failed to download update."))
    /\ UNCHANGED <<board, thread_id, media_items, selected_items, grid, status_var,
                   progress_var, download_btn, messagebox, session, dirs, delivered>>
    /\ UNCHANGED lifecycle

-----------------------------------------------------------------------------
(* Closing the application: on_close, AsyncWorker.close_session *)

CloseSessionJob == [type |-> "close_session", pc |-> "start"]

\* on_close, the WM_DELETE_WINDOW handler: close_session is submitted if a
\* session is there, and the window is destroyed without waiting for it.
\* (save_settings writes the settings file, which the model leaves out.)
on_close ==
    /\ window = "open"
    /\ jobs' = IF session # None THEN Append(jobs, CloseSessionJob) ELSE jobs
    /\ window' = "destroyed"
    /\ dialogs' = {}
    /\ UNCHANGED <<board, thread_id, media_items, selected_items, grid, status_var, progress_var,
                   download_btn, messagebox, afterq, net, session, fs, dirs, delivered>>

\* AsyncWorker.close_session, if the loop thread gets to run it.
close_session(j) ==
    /\ jobs[j].type = "close_session"
    /\ NextToStart(j)
    /\ BgFree
    /\ window # "exited"
    /\ session' = IF session # None THEN "closed" ELSE session
    /\ jobs' = [jobs EXCEPT ![j].pc = "done"]
    /\ UNCHANGED <<board, thread_id, media_items, selected_items, grid, status_var, progress_var,
                   download_btn, messagebox, afterq, net, fs, dirs, delivered>>
    /\ UNCHANGED lifecycle

\* mainloop returns once the window is destroyed and the interpreter exits;
\* the loop thread is a daemon thread and ends with it, wherever it is.
exit ==
    /\ window = "destroyed"
    /\ window' = "exited"
    /\ UNCHANGED <<board, thread_id, media_items, selected_items, grid, status_var, progress_var,
                   download_btn, messagebox, afterq, jobs, net, session, fs, dirs, delivered,
                   dialogs>>

-----------------------------------------------------------------------------
(* The steps of the two contexts *)

\* Steps of the loop thread for the load coroutines.
BgLoad ==
    \E j \in Jobs :
        \/ init_session(j)
        \/ LoadStart(j)
        \/ \E resp \in AllResponses : LoadResponse(j, resp)
        \/ LoadPost(j)
        \/ LoadLoopEnd(j)
        \/ \E r \in net, outcome \in {"ok", "fail"} : ThumbResponse(j, r, outcome)

\* Steps of the loop thread for the download coroutines.
BgDownload ==
    \E j \in Jobs :
        \/ DownloadStart(j)
        \/ \E outcome \in {"ok", "empty", "fail"}, wr \in {"ok", "openfail", "writefail"} :
              DownloadResponse(j, outcome, wr)

UISelect ==
    \/ \E k \in 1..MaxClick : toggle_selection(k)
    \/ select_all
    \/ deselect_all

\* The "Create Thread Folder" box is ticked, as it is by default.
UIDownload ==
    \E mkdir_ok \in BOOLEAN : start_download(TRUE, mkdir_ok)

\* Loading threads: the user loads short threads, also while earlier loads
\* are in progress.
Next ==
    \/ \E parts \in Urls : load_thread(parts)
    \/ RunCallback
    \/ BgLoad

Spec == Init /\ [][Next]_vars

\* Thumbnails of a long thread: the user loads the long thread and then the
\* thread without posts, also while the thumbnails of the long one are fetched.
NextThumbs ==
    \/ \E parts \in (IF LoadsSoFar = {} THEN {BigUrl} ELSE {EmptyThreadUrl}) : load_thread(parts)
    \/ RunCallback
    \/ BgLoad

SpecThumbs == Init /\ [][NextThumbs]_vars

\* Downloads: the thread /g/thread/1 has been loaded and shown (the state
\* Spec reaches when the load and all its callbacks have run, the record of
\* the ended load coroutine dropped); the user selects items and downloads
\* them, also while an earlier download is running.
InitLoaded ==
    /\ board = "g"
    /\ thread_id = "1"
    /\ media_items = <<MediaItem(111, ".jpg", "g"), MediaItem(222, ".webm", "g")>>
    /\ selected_items = {}
    /\ grid = [k \in 1..2 |-> [item |-> media_items[k], thumb |-> Bytes(thumb_url(media_items[k]))]]
    /\ status_var = [text |-> "Loaded", n |-> 2, of |-> 2]
    /\ progress_var = [num |-> 0, den |-> 1]
    /\ download_btn = "disabled"
    /\ messagebox = [text |-> ""]
    /\ afterq = <<>>
    /\ jobs = <<[type |-> "init_session", pc |-> "done"], Retired("load")>>
    /\ net = {}
    /\ session = "open"
    /\ fs = {}
    /\ dirs = {}
    /\ delivered = <<>>
    /\ window = "open"
    /\ dialogs = {}

NextDownload ==
    \/ RunCallback
    \/ UISelect
    \/ UIDownload
    \/ BgDownload

SpecDownload == InitLoaded /\ [][NextDownload]_vars

\* The steps of download coroutine j on the loop thread.
DownloadStep(j) ==
    /\ j \in Jobs
    /\ \/ DownloadStart(j)
       \/ \E outcome \in {"ok", "empty", "fail"}, wr \in {"ok", "openfail", "writefail"} :
             DownloadResponse(j, outcome, wr)

\* A download to its end: the user selects everything and downloads, also
\* while an earlier run is under way. The loop thread runs a coroutine that
\* can go on (every request returns, well or badly) and Tk's mainloop runs
\* the callbacks that are due.
NextRun ==
    \/ RunCallback
    \/ select_all
    \/ start_download(TRUE, TRUE)
    \/ BgDownload

SpecRun ==
    /\ InitLoaded /\ [][NextRun]_vars
    /\ WF_vars(RunCallback)
    /\ \A j \in 3..(2 + MaxDownloads) : WF_vars(DownloadStep(j))

\* Steps of the loop thread for the updater coroutines.
BgUpdate ==
    \E j \in Jobs :
        \/ init_session(j)
        \/ CheckStart(j)
        \/ \E resp \in CheckResponses : CheckResponse(j, resp)
        \/ \E is_frozen \in BOOLEAN : PerformStart(j, is_frozen)
        \/ \E outcome \in UpdateOutcomes : PerformResponse(j, outcome)

UIUpdate ==
    \/ \E silent \in BOOLEAN : check_updates(silent)
    \/ \E d \in dialogs : do_update(d)
    \/ \E d \in dialogs : dismiss(d)

\* Updating: the user (or the timer of startup) checks for updates and
\* answers the dialogs.
NextUpdate ==
    \/ UIUpdate
    \/ RunCallback
    \/ BgUpdate

SpecUpdate == Init /\ [][NextUpdate]_vars

\* The files of the installed program in the working directory: the script
\* of a source invocation and the executable (sys.executable) of a packaged
\* binary.
InstalledFiles ==
    {[dir |-> <<"cwd">>, name |-> "chan_scraper.py", content |-> Bytes(<<"installed", "py">>)],
     [dir |-> <<"cwd">>, name |-> "sys.executable", content |-> Bytes(<<"installed", "exe">>)]}

\* The program file of an invocation as it is on disk.
ProgramFile(is_frozen) ==
    {f \in fs : f.dir = <<"cwd">>
                /\ f.name = IF is_frozen THEN "sys.executable" ELSE "chan_scraper.py"}

\* Updating an installed program: the application has started from its
\* working directory, where its files are.
InitInstalled ==
    /\ board = ""
    /\ thread_id = ""
    /\ media_items = <<>>
    /\ selected_items = {}
    /\ grid = <<>>
    /\ status_var = [text |-> "Ready"]
    /\ progress_var = [num |-> 0, den |-> 1]
    /\ download_btn = "disabled"
    /\ messagebox = [text |-> ""]
    /\ afterq = <<>>
    /\ jobs = <<InitSessionJob>>
    /\ net = {}
    /\ session = None
    /\ fs = InstalledFiles
    /\ dirs = {}
    /\ delivered = <<>>
    /\ window = "open"
    /\ dialogs = {}

SpecInstall == InitInstalled /\ [][NextUpdate]_vars

\* Closing: the user loads /g/thread/1 and closes the window at any moment.
\* The loop thread goes on until the process ends; what it schedules with
\* after once the window is destroyed is never run.
NextClose ==
    \/ load_thread(ScenarioUrl)
    \/ RunCallback
    \/ window # "exited" /\ BgLoad
    \/ on_close
    \/ \E j \in Jobs : close_session(j)
    \/ exit

SpecClose == Init /\ [][NextClose]_vars

\* Loading and downloading: the user loads /g/thread/1 and then
\* /g/thread/2, selects what the grid shows and downloads it once, with
\* the "Create Thread Folder" box ticked or not.
NextReload ==
    \/ \E parts \in (IF LoadsSoFar = {} THEN {ScenarioUrl} ELSE {EmptyThreadUrl}) :
          load_thread(parts)
    \/ RunCallback
    \/ BgLoad
    \/ select_all
    \/ \E use_subdirs \in BOOLEAN : DownloadsSoFar = {} /\ start_download(use_subdirs, TRUE)
    \/ BgDownload

SpecReload == Init /\ [][NextReload]_vars

\* Loading over a selection: with /g/thread/1 loaded and shown, the user
\* selects items and enters the URL of /g/thread/2, a malformed URL or
\* nothing.
NextSelect ==
    \/ UISelect
    \/ \E parts \in {EmptyThreadUrl, NoText} \cup BadUrls : load_thread(parts)
    \/ RunCallback
    \/ BgLoad

SpecSelect == InitLoaded /\ [][NextSelect]_vars

\* Selecting while loading: the user loads /g/thread/1 and /g/thread/2,
\* also one over the other, opens and closes previews and selects in the
\* grid and in the previews.
NextPick ==
    \/ UISelect
    \/ \E k \in 1..MaxClick : open_preview(k)
    \/ \E d \in dialogs : toggle_and_update(d)
    \/ \E d \in dialogs : dismiss(d)
    \/ \E parts \in SmallUrls : load_thread(parts)
    \/ RunCallback
    \/ BgLoad

SpecPick == Init /\ [][NextPick]_vars

\* Every load so far has its listing behind it.
Listed == \A j \in LoadJobs : jobs[j].pc \in {"gather", "done"}

\* Loading over thumbnails: the user loads the long thread and, while its
\* thumbnails are fetched or later, /g/thread/1.
NextStale ==
    \/ \E parts \in (IF LoadsSoFar = {} THEN {BigUrl} ELSE {ScenarioUrl}) :
          Listed /\ load_thread(parts)
    \/ RunCallback
    \/ BgLoad

SpecStale == Init /\ [][NextStale]_vars

\* The posts a listing can be made of: two attachments, a post with 'tim'
\* but no 'ext', one with 'ext' but no 'tim', and a post with neither.
PostKinds ==
    {Post(111, ".jpg"), Post(222, ".webm"),
     [hasTim |-> TRUE, tim |-> 111, hasExt |-> FALSE, ext |-> ""],
     [hasTim |-> FALSE, tim |-> 0, hasExt |-> TRUE, ext |-> ".jpg"],
     TextPost}

Listings == UNION {[1..n -> PostKinds] : n \in 0..MaxPosts}

\* Any listing: /g/thread/1 has been requested and fetch_json has returned
\* a listing of up to MaxPosts posts of any kind (the state after
\* load_thread, init_session, LoadStart and LoadResponse); the coroutine
\* is about to run its loop.
InitListing ==
    /\ board = "g"
    /\ thread_id = "1"
    /\ media_items = <<>>
    /\ selected_items = {}
    /\ grid = <<>>
    /\ status_var = [text |-> "Fetching thread", board |-> "g", thread_id |-> "1"]
    /\ progress_var = [num |-> 0, den |-> 1]
    /\ download_btn = "disabled"
    /\ messagebox = [text |-> ""]
    /\ afterq = <<>>
    /\ \E posts \in Listings :
          jobs = <<[type |-> "init_session", pc |-> "done"],
                   [type |-> "load", pc |-> "loop", url |-> <<"g", "1">>, resp |-> "ok",
                    posts |-> posts, idx |-> 1, seen |-> {}, appended |-> <<>>,
                    signal |-> None, n |-> 0, i |-> 0, results |-> <<>>, input |-> <<>>,
                    notes |-> <<>>, cleared |-> {}]>>
    /\ net = {}
    /\ session = "open"
    /\ fs = {}
    /\ dirs = {}
    /\ delivered = <<>>
    /\ window = "open"
    /\ dialogs = {}

NextListing ==
    \/ \E j \in Jobs : LoadPost(j)
    \/ \E j \in Jobs : LoadLoopEnd(j)
    \/ \E j \in Jobs : \E r \in net, outcome \in {"ok", "fail"} : ThumbResponse(j, r, outcome)
    \/ RunCallback

SpecListing == InitListing /\ [][NextListing]_vars


-----------------------------------------------------------------------------
(* Properties *)

BgStep == BgLoad \/ BgDownload

Distinct(items) ==
    \A x, y \in 1..Len(items) : items[x].tim = items[y].tim => x = y

NonDecreasing(ns) == \A x, y \in 1..Len(ns) : x <= y => ns[x] <= ns[y]

\* Every load that was started has finished its listing and has been shown.
LoadsProcessed ==
    /\ \A j \in LoadJobs : jobs[j].pc \in {"gather", "done", "raised"}
    /\ \A c \in 1..Len(afterq) : afterq[c].fn # "render_grid_placeholders"

\* C1: the shared application state (thread context, media list, selection
\* set, progress and status) changes only in steps of the interactive context;
\* a step of the background context leaves it as it is.
C1_OnlyInteractiveMutates == [][BgStep => shared' = shared]_vars

\* C2: once the loads have been processed, no two descriptors of the media
\* list have the same identity (tim).
C2_NoDuplicateIdentity == LoadsProcessed => Distinct(media_items)

\* C3: a load whose listing response is a non-success status or an
\* unparsable body ends with the error notification scheduled, not with a
\* fault, and a valid listing without attachments ends without one.
C3_ErrorSignalled ==
    \A j \in LoadJobs :
        /\ jobs[j].resp \in {"notfound", "garbage"}
              => jobs[j].pc = "done" /\ jobs[j].signal = "error"
        /\ (jobs[j].resp = "ok" /\ Ended(j)) => jobs[j].signal = "found"

\* C4: a load whose response is valid with an empty posts array adds no
\* descriptor and signals no error; when no other load is in progress the
\* media list is empty.
C4_EmptyThreadNoError ==
    \A j \in LoadJobs :
        (jobs[j].resp = "ok" /\ jobs[j].posts = <<>>) =>
            /\ jobs[j].appended = <<>>
            /\ jobs[j].pc # "raised"
            /\ jobs[j].signal # "error"
            /\ \A c \in 1..Len(afterq) :
                  afterq[c].job = j => afterq[c].fn \notin {"showerror", "status_error"}
            /\ LoadJobs = {j} => media_items = <<>>

C4_Witness ==
    \E j \in LoadJobs :
        /\ jobs[j].resp = "ok" /\ jobs[j].posts = <<>>
        /\ jobs[j].pc = "done" /\ jobs[j].signal = "found"
        /\ afterq = <<>>
        /\ status_var = [text |-> "Found", n |-> 0]

\* The chunk notifications of run j that update_thumbnails has executed.
DeliveredOf(j) == SelectSeq(delivered, LAMBDA d : d.job = j)

\* C5: a thumbnail run has at most chunk_size requests in flight, all of the
\* chunk it is gathering, every earlier chunk having been notified; and the
\* notifications reach update_thumbnails in chunk order.
C5_ChunkedFetch ==
    \A j \in LoadJobs :
        /\ Cardinality(ThumbPending(j)) <= chunk_size
        /\ \A r \in ThumbPending(j) :
              /\ jobs[j].pc = "gather"
              /\ r.off = jobs[j].i
              /\ \A x \in 1..Len(jobs[j].notes) : jobs[j].notes[x].start < r.off
        /\ NonDecreasing([x \in 1..Len(jobs[j].notes) |-> jobs[j].notes[x].start])
        /\ Len(DeliveredOf(j)) <= Len(jobs[j].notes)
        /\ \A x \in 1..Len(DeliveredOf(j)) :
              /\ DeliveredOf(j)[x].start = jobs[j].notes[x].start
              /\ DeliveredOf(j)[x].res = jobs[j].notes[x].res
        /\ \A x, y \in 1..Len(DeliveredOf(j)) :
              x < y => DeliveredOf(j)[x].start < DeliveredOf(j)[y].start

C5_Witness ==
    \E j \in LoadJobs :
        /\ jobs[j].n > chunk_size
        /\ jobs[j].pc = "done"
        /\ Len(DeliveredOf(j)) = 2
        /\ DeliveredOf(j)[1].start = 0
        /\ Len(DeliveredOf(j)[1].res) = chunk_size
        /\ DeliveredOf(j)[2].start = chunk_size
        /\ Len(DeliveredOf(j)[2].res) = jobs[j].n - chunk_size

\* C6: the chunk notifications of a finished thumbnail run cover every
\* position of the list the run was started on exactly once, the slot of
\* position p holding the thumbnail of item p or nothing.
Covers(notes, input) ==
    /\ \A p \in 1..Len(input) :
          \E x \in 1..Len(notes) :
              /\ p - notes[x].start \in 1..Len(notes[x].res)
              /\ notes[x].res[p - notes[x].start] \in {NoBytes, Bytes(thumb_url(input[p]))}
              /\ \A y \in 1..Len(notes) :
                    p - notes[y].start \in 1..Len(notes[y].res) => y = x
    /\ \A x \in 1..Len(notes) : notes[x].start + Len(notes[x].res) <= Len(input)

C6_ResultsCoverInput ==
    \A j \in LoadJobs :
        (jobs[j].pc = "done" /\ jobs[j].signal = "found") => Covers(jobs[j].notes, jobs[j].input)


\* A download run has ended and all it reported has been shown.
Reported(j) == IsDownload(j) /\ Forgotten(j)

\* The earlier runs on the selection and destination of run b.
SameRun(a, b) == a.items = jobs[b].items /\ a.save_path = jobs[b].save_path

ItemNames(job) == {local_filename(job.items[k]) : k \in 1..Len(job.items)}

C8_NeverRewritten ==
    \A j \in DownloadJobs :
        /\ \A w \in 1..Len(jobs[j].writes) : ~jobs[j].writes[w].existed
        /\ \A k \in 1..Len(jobs[j].outc) : jobs[j].outc[k].existed => jobs[j].outc[k].net = "none"

\* a <= b for progress values, which are fractions num / den of 100 percent.
LeqProgress(a, b) == a.num * b.den <= b.num * a.den

\* The progress values a run delivers for its items, without the reset that
\* follows its completion.
PerItem(progs) == SelectSeq(progs, LAMBDA p : p.num > 0)

\* C9 as stated: the succeeded counts a run reports never decrease and the
\* last one equals total.
C9_FinalEqualsTotal ==
    \A j \in DownloadJobs :
        /\ NonDecreasing(jobs[j].counts)
        /\ (Reported(j) /\ jobs[j].total_items > 0) =>
              jobs[j].counts[Len(jobs[j].counts)] = jobs[j].total_items

\* C9 as amended: the progress values and the succeeded counts a run
\* delivers never decrease; the last progress value for an item is 100
\* percent (all of total processed), the last count is the number of items
\* that succeeded, and the run then resets the bar to 0.
C9_ProgressMonotone ==
    \A j \in DownloadJobs :
        LET per == PerItem(jobs[j].progs) IN
        /\ \A x, y \in 1..Len(per) : x <= y => LeqProgress(per[x], per[y])
        /\ NonDecreasing(jobs[j].counts)
        /\ \A x \in 1..Len(jobs[j].counts) : jobs[j].counts[x] <= jobs[j].total_items
        /\ \A x \in 1..Len(jobs[j].progs) :
              jobs[j].progs[x].num = 0 => x = Len(jobs[j].progs) /\ Reported(j)
        /\ (Reported(j) /\ jobs[j].total_items > 0) =>
              /\ Len(per) = jobs[j].total_items
              /\ per[Len(per)] = [num |-> jobs[j].total_items, den |-> jobs[j].total_items]
              /\ Len(jobs[j].counts) = jobs[j].total_items
              /\ jobs[j].counts[Len(jobs[j].counts)] = jobs[j].success_count
              /\ jobs[j].progs[Len(jobs[j].progs)] = [num |-> 0, den |-> 1]
              /\ progress_var.num = 0 \/ \E k \in DownloadJobs : k # j /\ ~Reported(k)

C9_Witness ==
    \E j \in DownloadJobs :
        /\ Reported(j)
        /\ jobs[j].total_items = 2
        /\ jobs[j].counts = <<0, 1>>
        /\ Len(jobs[j].progs) = 3

\* C10: the succeeded count of a run never exceeds total and is the number
\* of items whose file was already there or was fetched and written; after
\* the run every item has been accounted for.
Succeeded(fact) == fact.existed \/ (fact.net = "ok" /\ fact.wr = "ok")

C10_SucceededCount ==
    \A j \in DownloadJobs :
        /\ jobs[j].success_count <= jobs[j].total_items
        /\ jobs[j].success_count =
              Cardinality({k \in 1..Len(jobs[j].outc) : Succeeded(jobs[j].outc[k])})
        /\ Ended(j) => Len(jobs[j].outc) = jobs[j].total_items
        /\ \A k \in 1..Len(jobs[j].outc) :
              Succeeded(jobs[j].outc[k]) =>
                  \E f \in fs : f.dir = jobs[j].save_path
                                /\ f.name = local_filename(jobs[j].items[k])

C10_Witness ==
    \E j \in DownloadJobs :
        /\ Ended(j)
        /\ jobs[j].total_items = 2
        /\ jobs[j].success_count = 1
        /\ \E k \in 1..2 : jobs[j].outc[k].net = "ok" /\ jobs[j].outc[k].wr = "writefail"

\* C11: at most one download run is active at a time, so at most one request
\* for a full file is in flight.
C11_OneDownloadActive ==
    /\ Cardinality({j \in DownloadJobs : ~Ended(j)}) <= 1
    /\ Cardinality({r \in net : r.kind = "file"}) <= 1

\* C12: the destination directory exists before a download processes any
\* item; when creating it fails the user is shown an error, no download job
\* is submitted, no request is made and no file is written.
C12_DirectoryFirst ==
    /\ [](/\ \A j \in DownloadJobs : jobs[j].save_path \in dirs
          /\ \A f \in fs : f.dir \in dirs
          /\ \A r \in net : r.kind = "file" => jobs[r.job].save_path \in dirs)
    /\ [][\A use_subdirs \in BOOLEAN :
            (start_download(use_subdirs, FALSE) /\ ~(use_subdirs /\ board = None)) =>
                /\ messagebox' = [text |-> "Could not create folder"]
                /\ UNCHANGED <<jobs, net, fs, dirs, afterq, download_btn>>]_vars

C12_Witness ==
    /\ messagebox = [text |-> "Could not create folder"]
    /\ selected_items # {}
    /\ DownloadJobs = {}
    /\ dirs = {} /\ net = {} /\ fs = {}

\* C16: an accepted load command (one that submits a load) leaves the
\* selection empty and sets board and thread id, both, to those of the URL
\* it was given.
C16_LoadReplacesContext ==
    [][(Len(jobs') = Len(jobs) + 1 /\ jobs'[Len(jobs')].type = "load") =>
          /\ selected_items' = {}
          /\ \E parts \in Urls \cup {BigUrl} :
                /\ load_thread(parts)
                /\ Len(parts) >= 3
                /\ board' = parts[1]
                /\ thread_id' = parts[3]]_vars

C16_Witness ==
    \E j \in LoadJobs :
        /\ jobs[j].pc = "start"
        /\ jobs[j].cleared # {}
        /\ selected_items = {}
        /\ board = "g" /\ thread_id = "2"

\* C17: a transport failure of a worker request is caught at the request:
\* no coroutine that calls the worker is ended by a fault, and a listing
\* request that failed in transport is reported like any failed listing.
C17_TransportFailureCaught ==
    /\ \A j \in Jobs : jobs[j].pc # "raised"
    /\ \A j \in LoadJobs :
          (jobs[j].resp = "neterror" /\ jobs[j].pc # "fetch_json") => jobs[j].signal = "error"

\* C20: one session is created, by the job submitted at startup, and never
\* again; that job has run before any later job starts, so every request is
\* made on the open session.
C20_OneSessionFirst ==
    /\ [](/\ Cardinality({j \in Jobs : jobs[j].type = "init_session"}) = 1
          /\ jobs[1].type = "init_session"
          /\ session = "open" <=> jobs[1].pc = "done"
          /\ \A j \in Jobs : (j > 1 /\ jobs[j].pc # "start") => session = "open"
          /\ net # {} => session = "open")
    /\ [][session = "open" => session' = "open"]_vars

C20_Witness ==
    /\ session = "open"
    /\ \E j \in LoadJobs : jobs[j].pc = "fetch_json" /\ \E r \in net : r.job = j
    /\ \E j \in LoadJobs : jobs[j].pc = "start"

\* The dotted numeric tuple each tag stands for once its leading v's are
\* removed; (0, 0, 0) for a tag that is not dotted numbers.
TagTuple ==
    (<<"v", "1", ".", "3", ".", "0">> :> <<1, 3, 0>>) @@
    (<<"v", "1", ".", "2", ".", "0">> :> <<1, 2, 0>>) @@
    (<<"v", "1", ".", "1", ".", "9">> :> <<1, 1, 9>>) @@
    (<<"1", ".", "1", "0", ".", "0">> :> <<1, 10, 0>>) @@
    (<<"v", "v", "2">> :> <<2>>) @@
    (<<"v", "1", ".", "2">> :> <<1, 2>>) @@
    (<<"v", "1", ".", "2", ".", "0", ".", "1">> :> <<1, 2, 0, 1>>) @@
    (<<"v", "1", ".", "3", "-", "r", "c">> :> <<0, 0, 0>>) @@
    (<<"l", "a", "t", "e", "s", "t">> :> <<0, 0, 0>>) @@
    (<<" ">> :> <<0, 0, 0>>) @@
    (<<>> :> <<0, 0, 0>>)

\* a is lexicographically greater than b.
LexGreater(a, b) ==
    \E k \in 1..Len(a) :
        /\ \A i \in 1..(k - 1) : i <= Len(b) /\ a[i] = b[i]
        /\ k > Len(b) \/ a[k] > b[k]

\* C13: a check that gets a release descriptor reports an update iff the
\* tuple of its tag is lexicographically greater than that of the running
\* version (1, 2, 0); "latest" parses to (0, 0, 0) and gives no update, and
\* neither does the tag of the running version.
C13_UpdateIffGreater ==
    /\ \A j \in CheckJobs :
          (Ended(j) /\ jobs[j].resp = "ok") =>
              /\ ~jobs[j].result.none <=> LexGreater(TagTuple[jobs[j].tag], <<1, 2, 0>>)
              /\ ~jobs[j].result.none => jobs[j].result.tag_name = jobs[j].tag
    /\ \A t \in Tags : TagTuple[t] = <<0, 0, 0>> => parse_version(t) = <<0, 0, 0>>
    /\ parse_version(APP_VERSION) = <<1, 2, 0>>
    /\ \A j \in CheckJobs : jobs[j].tag \in {<<"l", "a", "t", "e", "s", "t">>, APP_VERSION}
                              => jobs[j].result.none

C13_Witness ==
    \E j \in CheckJobs :
        /\ Forgotten(j)
        /\ jobs[j].resp = "ok"
        /\ jobs[j].tag = <<"1", ".", "1", "0", ".", "0">>
        /\ ~jobs[j].result.none
        /\ \E d \in dialogs : d.kind = "update" /\ d.data.tag_name = jobs[j].tag

\* C14: a check never ends by a fault, and one that has no session, fails
\* in transport, gets another status than 200, an unreadable body or an
\* empty tag gives "no update".
C14_FailsClosed ==
    /\ \A j \in CheckJobs :
          /\ jobs[j].pc # "raised"
          /\ (Ended(j) /\ ( \/ jobs[j].resp \in {"nosession", "neterror", "non200", "garbage", "notag"}
                           \/ jobs[j].tag \in {<<>>, <<" ">>} )) => jobs[j].result.none
          /\ Ended(j) =>
                \/ \E c \in 1..Len(afterq) : afterq[c].job = j /\ afterq[c].fn = "show_update_ui"
                                             /\ afterq[c].update_data = jobs[j].result
                \/ Forgotten(j)
    /\ \A resp \in CheckResponses :
          check_update(None, resp) = [raised |-> FALSE, data |-> NoData]

C14_Witness ==
    \E j \in CheckJobs :
        /\ Forgotten(j)
        /\ jobs[j].resp = "neterror"
        /\ jobs[j].result.none
        /\ ~jobs[j].silent
        /\ \E d \in dialogs : d.kind = "uptodate"
        /\ status_var = [text |-> "Ready"]

\* The message _perform_update shows for the way run j failed.
FailureText(j) ==
    IF jobs[j].download_url = None
    THEN "Could not find a suitable update file."
    ELSE "Failed to download update."

\* C19: the update is applied (replace and restart) only after its download
\* succeeded; a run without a suitable asset or with a failed download
\* shows its error, is never applied, and makes no second request.
C19_ApplyOnlyAfterDownload ==
    /\ \A j \in PerformJobs :
          /\ jobs[j].applied => jobs[j].outcome = "ok" /\ jobs[j].download_url # None
          /\ jobs[j].reqs <= 1
          /\ (Ended(j) /\ jobs[j].is_frozen /\ ~jobs[j].data.hasExe) => jobs[j].download_url = None
          /\ (Ended(j) /\ (jobs[j].download_url = None \/ jobs[j].outcome # "ok")) =>
                /\ ~jobs[j].applied
                /\ \A c \in 1..Len(afterq) : afterq[c].job = j => afterq[c].fn # "apply_update"
                /\ jobs[j].reqs = IF jobs[j].download_url = None THEN 0 ELSE 1
                /\ \A r \in net : r.job # j
                /\ \/ jobs[j].surfaced = FailureText(j)
                   \/ \E c \in 1..Len(afterq) :
                         /\ afterq[c].job = j /\ afterq[c].fn = "showerror_update"
                         /\ afterq[c].text = FailureText(j)
    /\ window = "restarted" => \E j \in PerformJobs : jobs[j].applied /\ jobs[j].outcome = "ok"

C19_Witness ==
    \E j \in PerformJobs :
        /\ Forgotten(j)
        /\ jobs[j].outcome = "neterror"
        /\ jobs[j].surfaced = "Failed to download update."
        /\ messagebox = [text |-> "Failed to download update."]
        /\ status_var = [text |-> "Update failed."]
        /\ window = "open"

\* C15: once the application has closed, the session is closed, the
\* background context has stopped, and nothing reaches the interactive
\* context any more.
C15_CloseStopsBackground ==
    /\ [](window = "exited" => session # "open")
    /\ [][window = "exited" => UNCHANGED vars]_vars
    /\ [][window # "open" =>
            UNCHANGED <<status_var, progress_var, grid, messagebox, download_btn, selected_items>>]_vars

\* The threads whose listing holds an attachment stored under `name`.
ThreadsListing(name) ==
    {bt \in {<<"g", "1">>, <<"g", "2">>, <<"b", "3">>} :
        \E k \in 1..Len(ThreadPosts(bt[1], bt[2])) :
            LET post == ThreadPosts(bt[1], bt[2])[k] IN
            /\ post.hasTim /\ post.hasExt
            /\ local_filename(MediaItem(post.tim, post.ext, bt[1])) = name}

\* C18: a download run saves each item either in the destination itself
\* (no subfolders) or in destination/board/threadId of the thread the item
\* was listed from, under identity + extension; a run of one item that is
\* fetched and written reports 1 of 1.
C18_FilesUnderThreadFolder ==
    \A d \in DownloadJobs :
        /\ \A k \in 1..Len(jobs[d].items) :
              \/ jobs[d].save_path = <<"dest">>
              \/ \E bt \in ThreadsListing(local_filename(jobs[d].items[k])) :
                    jobs[d].save_path = <<"dest", bt[1], bt[2]>>
        /\ \A w \in 1..Len(jobs[d].writes) :
              \E k \in 1..Len(jobs[d].items) :
                  jobs[d].writes[w].name = local_filename(jobs[d].items[k])
        /\ (Ended(d) /\ jobs[d].total_items = 1
              /\ jobs[d].outc = <<[existed |-> FALSE, net |-> "ok", wr |-> "ok"]>>) =>
                 /\ jobs[d].success_count = 1
                 /\ exists(jobs[d].save_path, local_filename(jobs[d].items[1]))

\* C21: a file at the destination under the local filename of an item of a
\* download run holds the complete body of that item; no failed fetch or
\* write leaves an empty or partial file there, so every file a run counts
\* as already present is complete.
C21_AllOrNothing ==
    \A j \in DownloadJobs : \A k \in 1..Len(jobs[j].items) : \A f \in fs :
        (f.dir = jobs[j].save_path /\ f.name = local_filename(jobs[j].items[k]))
            => f.content = Bytes(full_url(jobs[j].items[k]))

\* The positions of the posts of a listing that carry both an identity and
\* an extension and whose identity no earlier such post carries.
Kept(posts) ==
    {k \in 1..Len(posts) :
        /\ posts[k].hasTim /\ posts[k].hasExt
        /\ \A m \in 1..(k - 1) :
              ~(posts[m].hasTim /\ posts[m].hasExt /\ posts[m].tim = posts[k].tim)}

\* The x-th of a set of positions, in increasing order.
Nth(ks, x) == CHOOSE k \in ks : Cardinality({m \in ks : m < k}) = x - 1

\* C22: the descriptors one load produces are the posts that carry both an
\* identity and an extension, first occurrence of each identity only, in
\* listing order; while the loop runs they are those among the posts it has
\* passed. A post missing either key yields no descriptor.
C22_DescriptorsOfListing ==
    \A j \in LoadJobs :
        LET passed == SubSeq(jobs[j].posts, 1, jobs[j].idx - 1)
            out == jobs[j].appended
        IN
        /\ Len(out) = Cardinality(Kept(passed))
        /\ \A x \in 1..Len(out) :
              /\ out[x].tim = passed[Nth(Kept(passed), x)].tim
              /\ out[x].ext = passed[Nth(Kept(passed), x)].ext
        /\ jobs[j].signal = "found" => passed = jobs[j].posts

C22_Witness ==
    \E j \in LoadJobs :
        /\ jobs[j].signal = "found"
        /\ jobs[j].posts = <<[hasTim |-> TRUE, tim |-> 111, hasExt |-> FALSE, ext |-> ""],
                             Post(222, ".webm"), Post(222, ".webm")>>
        /\ Len(jobs[j].appended) = 1
        /\ jobs[j].appended[1].tim = 222

\* The requests for full files a download run has in flight.
FilePending(j) == {r \in net : r.job = j /\ r.kind = "file"}

\* C23: a download run takes its items one by one in input order: the only
\* request it has in flight is for the item that follows those it has
\* finished, each item is requested at most once, a failed fetch or write
\* is followed by the next item, and a run that has ended has processed
\* every item; the completion notice carries the final succeeded count, and
\* every run that was started delivers it in the end.
C23_RunToCompletion ==
    /\ [](\A j \in DownloadJobs :
            /\ Cardinality(FilePending(j)) <= 1
            /\ \A r \in FilePending(j) :
                  /\ jobs[j].pc = "fetch"
                  /\ jobs[j].k = Len(jobs[j].outc) + 1
                  /\ r.url = full_url(jobs[j].items[jobs[j].k])
            /\ jobs[j].pc = "fetch" => FilePending(j) # {}
            /\ jobs[j].reqs = Cardinality(FilePending(j))
                  + Cardinality({k \in 1..Len(jobs[j].outc) : jobs[j].outc[k].net # "none"})
            /\ Len(jobs[j].outc) <= jobs[j].total_items
            /\ Ended(j) <=> (Len(jobs[j].outc) = jobs[j].total_items /\ jobs[j].pc # "start")
            /\ \A c \in 1..Len(afterq) :
                  (afterq[c].job = j /\ afterq[c].fn = "showinfo_complete") =>
                      Ended(j) /\ afterq[c].c = jobs[j].success_count
            /\ jobs[j].notice # -1 => Ended(j) /\ jobs[j].notice = jobs[j].success_count)
    /\ \A j \in 3..(2 + MaxDownloads) :
          (j \in DownloadJobs) ~>
              (j \in Jobs /\ (jobs[j].type = "retired"
                              \/ (Ended(j) /\ jobs[j].notice = jobs[j].success_count)))

C23_Witness ==
    \E j \in DownloadJobs :
        /\ jobs[j].total_items = 2
        /\ jobs[j].outc = <<[existed |-> FALSE, net |-> "ok", wr |-> "writefail"],
                            [existed |-> FALSE, net |-> "ok", wr |-> "ok"]>>
        /\ jobs[j].notice = 1
        /\ messagebox = [text |-> "Complete", c |-> 1, path |-> <<"dest", "g", "1">>]

\* The descriptors of the attachments the listing of /b/thread/t holds.
ListedIn(item, b, t) ==
    \E k \in 1..Len(ThreadPosts(b, t)) :
        LET post == ThreadPosts(b, t)[k] IN
        /\ post.hasTim /\ post.hasExt
        /\ item = MediaItem(post.tim, post.ext, b)

\* C24: once every load has finished, the media list holds only descriptors
\* of the thread the last accepted load command named (the thread context,
\* when no malformed URL was entered since), each with that thread's board;
\* and a listing request goes to the endpoint of the thread its command
\* named, so never to the endpoint of no thread.
C24_LatestThreadOnly ==
    /\ (LoadsSoFar # {} /\ board # None /\ \A j \in LoadJobs : Ended(j)) =>
          \A k \in 1..Len(media_items) : ListedIn(media_items[k], board, thread_id)
    /\ \A r \in net : r.kind = "json" => r.url[1] # None

\* C25: a thumbnail is attached only to the grid entry of the descriptor it
\* was fetched for: every entry shows no thumbnail or the thumbnail of its
\* own descriptor, never one fetched for a descriptor of another load or of
\* another position.
C25_ThumbnailOfItsDescriptor ==
    \A w \in 1..Len(grid) :
        grid[w].thumb \in {NoBytes, Bytes(thumb_url(grid[w].item))}

\* C26: a load command with a malformed URL changes neither the thread
\* context nor the media list nor the selection, so the folder a download
\* would save to stays that of the thread whose items the grid displays.
C26_RejectedLoadNoEffect ==
    /\ [][\A parts \in BadUrls :
            load_thread(parts) =>
                UNCHANGED <<board, thread_id, media_items, selected_items>>]_vars
    /\ [](\A w \in 1..Len(grid) :
            /\ ListedIn(grid[w].item, board, thread_id)
            /\ SavePath(TRUE) = <<"dest", grid[w].item.board, thread_id>>)

\* C27: every identity in the selection set is the identity of a descriptor
\* of the media list.
C27_SelectionWithinMedia ==
    selected_items \subseteq {media_items[k].tim : k \in 1..Len(media_items)}

\* C28: a step in which the download of the update artifact ends in
\* failure (another status than 200, or an error of the request, of the
\* file or of reading the body) leaves the installed program file of the
\* invocation as it was, for a packaged binary and for a source invocation.
C28_FailedUpdateKeepsProgram ==
    [][\A j \in PerformJobs :
          (jobs[j].pc = "download" /\ jobs'[j].pc = "done" /\ ~jobs'[j].success) =>
              ProgramFile(jobs[j].is_frozen)' = ProgramFile(jobs[j].is_frozen)]_vars

\* C29: the thumbnail requests in flight in the background context, of all
\* loads together, are never more than chunk_size.
C29_ThumbnailsInFlight ==
    Cardinality({r \in net : r.kind = "thumb"}) <= chunk_size

====
